---- MODULE Spec2Model ----
(***************************************************************************)
(* Model of the INMET weather-station analysis scripts.                    *)
(*                                                                         *)
(*   Spec     AnalisadorTemperaturaDetalhado: a loaded hourly table, then  *)
(*            detectar_ondas_calor / detectar_ondas_frio, one step per     *)
(*            iteration of the scan loop.                                  *)
(*   SpecAgg  analise1.py: a loaded (sorted) hourly table, then            *)
(*            daily_aggregates.                                            *)
(*                                                                         *)
(* Floating-point values are modelled as exact rationals <<n, d>> with     *)
(* d > 0 in lowest terms; NaN is <<0, 0>>.  Dates are day numbers.         *)
(***************************************************************************)
EXTENDS Integers, Naturals, Sequences, FiniteSets, TLC

VARIABLES
    df,                 \* AnalisadorTemperaturaDetalhado.df: rows [Data, Temperatura]
    pc,                 \* position of the running program
    limiar_percentil,   \* argument of detectar_ondas_*
    dias_consecutivos,  \* argument of detectar_ondas_*
    limiar,             \* local of detectar_ondas_*
    temp_diaria,        \* local of detectar_ondas_*: rows [Data, media]
    pos,                \* index of the next item of the scan loop
    inicio,             \* local of detectar_ondas_*
    duracao,            \* local of detectar_ondas_*
    ondas,              \* local of detectar_ondas_*, then its return value
    tab,                \* analise1: the DataFrame returned by load_data
    daily,              \* analise1: the DataFrame returned by daily_aggregates
    miss,               \* analise1: the DataFrame returned by missing_report
    escrito,            \* analise1: the rows written to missing_report.csv
    csv,                \* the station export as read_csv sees it: header and body
    out,                \* what a loader returned (or that it raised)
    arg,                \* argument of a pure function under test
    ret,                \* its result
    programa,           \* the analyser class or script that is running
    self_df,            \* its table: self.df, or the df of main
    carregada,          \* the table as the constructor or loader left it
    estatisticas,       \* AnalisadorTemperaturaDetalhado.estatisticas
    fila,               \* calls executar_analise_completa or main has yet to make
    chamadas            \* the calls made so far and what each one produced

varsCarga == <<csv, out>>
varsFun == <<arg, ret>>
varsExec == <<programa, self_df, carregada, estatisticas, fila, chamadas>>

vars == <<df, pc, limiar_percentil, dias_consecutivos, limiar, temp_diaria,
          pos, inicio, duracao, ondas, tab, daily, miss, escrito, varsExec, varsCarga, varsFun>>

(***************************************************************************)
(* Bounds of the model.                                                    *)
(***************************************************************************)
MaxRows == 4        \* rows of the detector's table
MaxDay == 4         \* calendar days 1..MaxDay of the detector's table
AggMaxRows == 3     \* rows of the aggregator's table
AggMaxDay == 3      \* calendar days 1..AggMaxDay of the aggregator's table
MaxNome == 4        \* characters of a column name
MaxCampo == 3       \* characters of a numeric field
MaxLinhas == 3      \* body lines of the file a loader reads
MaxRegistros == 2   \* rows of the table of a running analyser
MaxAvulsas == 1     \* calls made on an analyser outside its complete run

\* Hourly temperatures of the detector's table (degrees, small integers).
Temps == {1, 2}
\* Hourly temperatures of the aggregator's table; 0 is a measured zero.
AggVals == {0, 1}
\* Hourly precipitation of the aggregator's table (a wet hour).
AggPrecips == {1}
\* Arguments the callers pass (percentiles in 0..100, positive run lengths;
\* the defaults are 90 / 10 and 3).
Percentis == {10, 50, 90}
DiasConsecutivos == {1, 2, 3}

(***************************************************************************)
(* Floats as exact rationals.                                              *)
(***************************************************************************)
NaN == <<0, 0>>

isna(x) == x[2] = 0

Abs(n) == IF n < 0 THEN -n ELSE n

RECURSIVE GCD(_, _)
GCD(a, b) == IF b = 0 THEN a ELSE GCD(b, a % b)

Rat(n, d) ==
    LET g == GCD(Abs(n), d) IN <<n \div g, d \div g>>

Float(n) == <<n, 1>>

RatAdd(a, b) == Rat(a[1] * b[2] + b[1] * a[2], a[2] * b[2])
RatSub(a, b) == Rat(a[1] * b[2] - b[1] * a[2], a[2] * b[2])
RatMul(a, b) == Rat(a[1] * b[1], a[2] * b[2])
RatDivInt(a, k) == Rat(a[1], a[2] * k)

\* Comparisons with NaN are False, as in IEEE 754 / numpy.
RatLt(a, b) == ~isna(a) /\ ~isna(b) /\ a[1] * b[2] < b[1] * a[2]
RatGt(a, b) == RatLt(b, a)
RatLe(a, b) == ~isna(a) /\ ~isna(b) /\ a[1] * b[2] <= b[1] * a[2]

(***************************************************************************)
(* pandas reducers over a sequence of floats (skipna=True).                *)
(***************************************************************************)
dropna(s) == SelectSeq(s, LAMBDA x : ~isna(x))

RECURSIVE RatSum(_)
RatSum(s) == IF s = <<>> THEN Float(0) ELSE RatAdd(Head(s), RatSum(Tail(s)))

\* Series.sum(): NaN skipped, min_count=0, so the sum of nothing is 0.
SeriesSum(s) == RatSum(dropna(s))

\* Series.mean(): NaN skipped; NaN when nothing is left.
SeriesMean(s) ==
    LET v == dropna(s) IN
    IF v = <<>> THEN NaN ELSE RatDivInt(RatSum(v), Len(v))

RECURSIVE RatMax(_)
RatMax(s) ==
    IF Len(s) = 1 THEN Head(s)
    ELSE LET m == RatMax(Tail(s)) IN IF RatGt(Head(s), m) THEN Head(s) ELSE m

RECURSIVE RatMin(_)
RatMin(s) ==
    IF Len(s) = 1 THEN Head(s)
    ELSE LET m == RatMin(Tail(s)) IN IF RatLt(Head(s), m) THEN Head(s) ELSE m

\* Series.max() / Series.min(): NaN skipped; NaN when nothing is left.
SeriesMax(s) == LET v == dropna(s) IN IF v = <<>> THEN NaN ELSE RatMax(v)
SeriesMin(s) == LET v == dropna(s) IN IF v = <<>> THEN NaN ELSE RatMin(v)

\* The k-th smallest (1-based) of a non-empty sequence of non-NaN floats.
KthSmallest(v, k) ==
    LET i == CHOOSE i \in DOMAIN v :
                 /\ Cardinality({j \in DOMAIN v : RatLt(v[j], v[i])}) <= k - 1
                 /\ Cardinality({j \in DOMAIN v : RatLe(v[j], v[i])}) >= k
    IN v[i]

\* Series.quantile(p / 100): NaN skipped, linear interpolation between the
\* two order statistics around position (n - 1) * p / 100.
Quantile(s, p) ==
    LET v == dropna(s)
        n == Len(v)
        lo == ((n - 1) * p) \div 100
        r == ((n - 1) * p) % 100
    IN IF n = 0 THEN NaN
       ELSE IF r = 0 THEN KthSmallest(v, lo + 1)
       ELSE LET a == KthSmallest(v, lo + 1)
                b == KthSmallest(v, lo + 2)
            IN RatAdd(a, RatMul(Rat(r, 100), RatSub(b, a)))

\* The elements of a finite set of integers in increasing order.
SortedSeq(S) ==
    [k \in 1..Cardinality(S) |->
        CHOOSE x \in S : Cardinality({y \in S : y < x}) = k - 1]

\* The column c of a table, as a sequence.
Col(t, c) == [k \in DOMAIN t |-> t[k][c]]

(***************************************************************************)
(* AnalisadorTemperaturaDetalhado                                          *)
(***************************************************************************)
\* `inicio = None`; dates are 1..MaxDay.
None == 0

\* pd.NaT: the date or timestamp of a row that has none (an empty cell, or
\* a text that errors='coerce' could not parse).
NaT == -1

\* The tables __init__ can load: at least one dated row, in the chronological
\* order of a station export, then the rows whose date cell is empty; a cell
\* of the temperature column that does not parse is NaN (errors='coerce').

Cronologicas(n, S) ==
    {d \in [1..n -> S] : \A k \in 1..(n - 1) : d[k] <= d[k + 1]}

\* The dated rows in order, then the NaT ones, n rows in all.
ComNaT(ts, n) == [k \in 1..n |-> IF k <= Len(ts) THEN ts[k] ELSE NaT]


Arquivo(d, v) == [k \in DOMAIN d |-> [Data |-> d[k], Temperatura |-> v[k]]]

\* self.df.groupby('Data')[self.temp_col].mean(): one entry per date that
\* has a row, in increasing date order; NaN for a date whose values are all
\* NaN. groupby drops the NaT key (dropna=True).
GroupbyMean(t) ==
    LET keys == SortedSeq({t[k].Data : k \in DOMAIN t} \ {NaT}) IN
    [g \in DOMAIN keys |->
        [Data |-> keys[g],
         media |-> SeriesMean(Col(SelectSeq(t, LAMBDA r : r.Data = keys[g]),
                                  "Temperatura"))]]

\* self.df[self.temp_col].quantile(limiar_percentil / 100)
CalcularLimiar(t, p) == Quantile(Col(t, "Temperatura"), p)

\* Mutant: the threshold itself counts as exceeding it.
AcimaOuIgual(v, lim) == RatLe(lim, v)

\* Mutant: the cold detector looks above its threshold.
AbaixoTrocado(v, lim) == RatGt(v, lim)

\* temp_diaria > limiar, temp_diaria < limiar (elementwise)
Acima(v, lim) == RatGt(v, lim)
Abaixo(v, lim) == RatLt(v, lim)

\* Mutant: the day is added instead of subtracted.
FimDepois(data) == data + 1

\* pd.Timestamp(data) - pd.Timedelta(days=1)
Fim(data) == data - 1

\* temp_diaria[inicio:fim]: the label slice of a sorted index, both ends included.
Fatia(td, a, b) ==
    Col(SelectSeq(td, LAMBDA r : a <= r.Data /\ r.Data <= b), "media")

\* Mutant: off by one in the length test.
QuaseSuficiente(dur, dias) == dur >= dias - 1

\* The test that closes a run into an event.
Suficiente(dur, dias) == dur >= dias

\* Mutant: a run still open after the last day is closed into an event.
AposLacoComDescarga(o, ini, dur, dias, td) ==
    IF dur >= dias /\ dur > 0
    THEN Append(o, [inicio |-> ini, fim |-> td[Len(td)].Data, duracao |-> dur])
    ELSE o

\* What follows the loop: the events collected so far are returned as they are.
AposLaco(o, ini, dur, dias, td) == o

InitCommon ==
    /\ pc = "pronto"
    /\ limiar_percentil = 0
    /\ dias_consecutivos = 0
    /\ limiar = NaN
    /\ temp_diaria = <<>>
    /\ pos = 0
    /\ inicio = None
    /\ duracao = 0
    /\ ondas = <<>>
    /\ daily = <<>>
    /\ miss = <<>>
    /\ escrito = <<>>

\* The variables of the other programs, unused.
SemCarga == csv = <<>> /\ out = <<>>
SemFun == arg = <<>> /\ ret = <<>>
SemExec ==
    /\ programa = ""
    /\ self_df = <<>>
    /\ carregada = <<>>
    /\ estatisticas = <<>>
    /\ fila = <<>>
    /\ chamadas = <<>>

Init ==
    /\ SemCarga
    /\ SemFun
    /\ \E n \in 1..MaxRows, m \in 1..MaxRows :
           /\ m <= n
           /\ \E d \in Cronologicas(m, 1..MaxDay) :
                  \E v \in [1..n -> {NaN} \cup {Float(x) : x \in Temps}] :
                      df = Arquivo(ComNaT(d, n), v)
    /\ tab = <<>>
    /\ InitCommon
    /\ SemExec

\* detectar_ondas_calor up to the loop.
detectar_ondas_calor(p, dias) ==
    /\ pc = "pronto"
    /\ df # <<>>
    /\ limiar_percentil' = p
    /\ dias_consecutivos' = dias
    /\ limiar' = CalcularLimiar(df, p)
    /\ temp_diaria' = GroupbyMean(df)
    /\ ondas' = <<>>
    /\ inicio' = None
    /\ duracao' = 0
    /\ pos' = 1
    /\ pc' = "calor"
    /\ UNCHANGED <<df, tab, daily, miss, escrito, varsExec, varsCarga, varsFun>>

\* One iteration of `for data, acima in acima_limiar.items()`.
LacoCalor ==
    /\ pc = "calor"
    /\ pos <= Len(temp_diaria)
    /\ LET data == temp_diaria[pos].Data
           acima == Acima(temp_diaria[pos].media, limiar)
       IN IF acima
          THEN /\ inicio' = IF inicio = None THEN data ELSE inicio
               /\ duracao' = duracao + 1
               /\ ondas' = ondas
          ELSE /\ ondas' =
                    IF Suficiente(duracao, dias_consecutivos)
                    THEN LET fim == Fim(data) IN
                         Append(ondas,
                             [inicio |-> inicio,
                              fim |-> fim,
                              duracao |-> duracao,
                              temp_max |-> SeriesMax(Fatia(temp_diaria, inicio, fim)),
                              temp_media |-> SeriesMean(Fatia(temp_diaria, inicio, fim))])
                    ELSE ondas
               /\ inicio' = None
               /\ duracao' = 0
    /\ pos' = pos + 1
    /\ UNCHANGED <<df, pc, limiar_percentil, dias_consecutivos, limiar,
                   temp_diaria, tab, daily, miss, escrito, varsExec, varsCarga, varsFun>>

\* The loop is exhausted: report and return ondas.
RetornaCalor ==
    /\ pc = "calor"
    /\ pos > Len(temp_diaria)
    /\ ondas' = AposLaco(ondas, inicio, duracao, dias_consecutivos, temp_diaria)
    /\ pc' = "fim_calor"
    /\ UNCHANGED <<df, limiar_percentil, dias_consecutivos, limiar, temp_diaria,
                   pos, inicio, duracao, tab, daily, miss, escrito, varsExec, varsCarga, varsFun>>

\* detectar_ondas_frio up to the loop.
detectar_ondas_frio(p, dias) ==
    /\ pc = "pronto"
    /\ df # <<>>
    /\ limiar_percentil' = p
    /\ dias_consecutivos' = dias
    /\ limiar' = CalcularLimiar(df, p)
    /\ temp_diaria' = GroupbyMean(df)
    /\ ondas' = <<>>
    /\ inicio' = None
    /\ duracao' = 0
    /\ pos' = 1
    /\ pc' = "frio"
    /\ UNCHANGED <<df, tab, daily, miss, escrito, varsExec, varsCarga, varsFun>>

\* One iteration of `for data, abaixo in abaixo_limiar.items()`.
LacoFrio ==
    /\ pc = "frio"
    /\ pos <= Len(temp_diaria)
    /\ LET data == temp_diaria[pos].Data
           abaixo == Abaixo(temp_diaria[pos].media, limiar)
       IN IF abaixo
          THEN /\ inicio' = IF inicio = None THEN data ELSE inicio
               /\ duracao' = duracao + 1
               /\ ondas' = ondas
          ELSE /\ ondas' =
                    IF Suficiente(duracao, dias_consecutivos)
                    THEN LET fim == Fim(data) IN
                         Append(ondas,
                             [inicio |-> inicio,
                              fim |-> fim,
                              duracao |-> duracao,
                              temp_min |-> SeriesMin(Fatia(temp_diaria, inicio, fim)),
                              temp_media |-> SeriesMean(Fatia(temp_diaria, inicio, fim))])
                    ELSE ondas
               /\ inicio' = None
               /\ duracao' = 0
    /\ pos' = pos + 1
    /\ UNCHANGED <<df, pc, limiar_percentil, dias_consecutivos, limiar,
                   temp_diaria, tab, daily, miss, escrito, varsExec, varsCarga, varsFun>>

RetornaFrio ==
    /\ pc = "frio"
    /\ pos > Len(temp_diaria)
    /\ ondas' = AposLaco(ondas, inicio, duracao, dias_consecutivos, temp_diaria)
    /\ pc' = "fim_frio"
    /\ UNCHANGED <<df, limiar_percentil, dias_consecutivos, limiar, temp_diaria,
                   pos, inicio, duracao, tab, daily, miss, escrito, varsExec, varsCarga, varsFun>>

ChamaCalor == \E p \in Percentis, dias \in DiasConsecutivos : detectar_ondas_calor(p, dias)
ChamaFrio == \E p \in Percentis, dias \in DiasConsecutivos : detectar_ondas_frio(p, dias)

Next ==
    \/ ChamaCalor
    \/ LacoCalor
    \/ RetornaCalor
    \/ ChamaFrio
    \/ LacoFrio
    \/ RetornaFrio

Spec == Init /\ [][Next]_vars

(***************************************************************************)
(* Properties of the wave detector (checked under Spec).                   *)
(***************************************************************************)
Calor == pc \in {"calor", "fim_calor"}
Varrendo == pc \in {"calor", "frio", "fim_calor", "fim_frio"}
Retornou == pc \in {"fim_calor", "fim_frio"}

\* Entry k of the scanned daily series qualifies for the running detector.
Qualifica(k) ==
    IF Calor THEN RatGt(temp_diaria[k].media, limiar)
    ELSE RatLt(temp_diaria[k].media, limiar)

\* Entries a..b of the scanned series form a maximal run of qualifying
\* entries that the scan has seen broken by entry b + 1.
CorridaFechada(a, b) ==
    /\ a <= b
    /\ b + 1 < pos
    /\ \A k \in a..b : Qualifica(k)
    /\ a = 1 \/ ~Qualifica(a - 1)
    /\ ~Qualifica(b + 1)

CorridasFechadas ==
    {c \in (DOMAIN temp_diaria) \X (DOMAIN temp_diaria) : CorridaFechada(c[1], c[2])}

MediasDe(a, b) == [k \in 1..(b - a + 1) |-> temp_diaria[a + k - 1].media]

\* C1: the events are pairwise non-overlapping (no day lies in two events)
\* and appear in increasing start-date order.
C1_SemSobreposicao ==
    \A i \in DOMAIN ondas :
        /\ ondas[i].inicio <= ondas[i].fim
        /\ \A j \in DOMAIN ondas :
               i < j => /\ ondas[i].fim < ondas[j].inicio
                        /\ ondas[i].inicio <= ondas[j].inicio

C1_Witness == Retornou /\ Len(ondas) >= 2

\* C2: every run of at least dias_consecutivos qualifying days that a
\* non-qualifying day has broken gives exactly one event, whose inicio is the
\* first day of the run, fim its last qualifying day, duracao its length, the
\* extreme value the max (heat) or min (cold) and temp_media the mean of the
\* run's daily values; and there are no other events.
C2_EventoDaCorrida ==
    Varrendo =>
        LET longas == {c \in CorridasFechadas : c[2] - c[1] + 1 >= dias_consecutivos}
            Evento(c) == CHOOSE i \in DOMAIN ondas :
                             ondas[i].inicio = temp_diaria[c[1]].Data
        IN /\ Len(ondas) = Cardinality(longas)
           /\ \A c \in longas :
                /\ \E i \in DOMAIN ondas : ondas[i].inicio = temp_diaria[c[1]].Data
                /\ Evento(c) \in DOMAIN ondas
                /\ LET e == ondas[Evento(c)]
                       m == MediasDe(c[1], c[2])
                   IN /\ e.fim = temp_diaria[c[2]].Data
                      /\ e.duracao = c[2] - c[1] + 1
                      /\ e.temp_media = RatDivInt(RatSum(m), Len(m))
                      /\ IF Calor
                         THEN /\ \E k \in DOMAIN m : e.temp_max = m[k]
                              /\ \A k \in DOMAIN m : RatLe(m[k], e.temp_max)
                         ELSE /\ \E k \in DOMAIN m : e.temp_min = m[k]
                              /\ \A k \in DOMAIN m : RatLe(e.temp_min, m[k])

\* C3: every event lasts at least dias_consecutivos days, and a scanned
\* series with no dias_consecutivos qualifying entries in a row gives no event.
C3_DuracaoMinima ==
    /\ \A i \in DOMAIN ondas : ondas[i].duracao >= dias_consecutivos
    /\ (Varrendo /\ ~\E a \in DOMAIN temp_diaria :
                        /\ a + dias_consecutivos - 1 <= Len(temp_diaria)
                        /\ \A k \in a..(a + dias_consecutivos - 1) : Qualifica(k))
           => ondas = <<>>

C3_Witness ==
    /\ Retornou
    /\ dias_consecutivos = 3
    /\ ondas = <<>>
    /\ \E a \in DOMAIN temp_diaria :
           /\ a + 2 <= Len(temp_diaria)
           /\ Qualifica(a) /\ Qualifica(a + 1) /\ ~Qualifica(a + 2)

\* C4: the threshold is the requested percentile of the daily-mean series
\* that is scanned (NaN excluded).
C4_LimiarDaSerieDiaria ==
    Varrendo => limiar = Quantile(Col(temp_diaria, "media"), limiar_percentil)

\* C5: a run still open when the series ends gives no event: after the
\* return no event reaches into the qualifying days that end the series.
C5_SemDescargaFinal ==
    (Retornou /\ Qualifica(Len(temp_diaria))) =>
        LET t == CHOOSE a \in DOMAIN temp_diaria :
                     /\ \A k \in a..Len(temp_diaria) : Qualifica(k)
                     /\ a = 1 \/ ~Qualifica(a - 1)
        IN \A i \in DOMAIN ondas : ondas[i].fim < temp_diaria[t].Data

C5_Witness ==
    /\ Retornou
    /\ Len(temp_diaria) > dias_consecutivos
    /\ \A k \in (Len(temp_diaria) - dias_consecutivos + 1)..Len(temp_diaria) : Qualifica(k)
    /\ duracao >= dias_consecutivos

\* C6: a day whose daily value equals the threshold breaks the open run, and
\* no event contains such a day.
C6_IgualNaoConta ==
    Varrendo =>
        /\ \A k \in DOMAIN temp_diaria :
               (~isna(limiar) /\ temp_diaria[k].media = limiar) =>
                   \A i \in DOMAIN ondas :
                       ~(ondas[i].inicio <= temp_diaria[k].Data
                            /\ temp_diaria[k].Data <= ondas[i].fim)
        /\ (pos > 1 /\ ~isna(limiar) /\ temp_diaria[pos - 1].media = limiar) =>
               (duracao = 0 /\ inicio = None)

C6_Witness ==
    /\ Varrendo
    /\ pos > 2
    /\ ~isna(limiar)
    /\ temp_diaria[pos - 1].media = limiar
    /\ Qualifica(pos - 2)

\* C7: a calendar day that has no non-null value (all its observations null,
\* or no observation at all) breaks the open run: no event holds such a day
\* followed by a later day of the same event that has a value.
C7_DiaSemValorQuebra ==
    \A i \in DOMAIN ondas :
        \A d \in ondas[i].inicio..ondas[i].fim :
            (\E k \in DOMAIN df : /\ d < df[k].Data
                                  /\ df[k].Data <= ondas[i].fim
                                  /\ ~isna(df[k].Temperatura))
                => \E k \in DOMAIN df : df[k].Data = d /\ ~isna(df[k].Temperatura)

(***************************************************************************)
(* analise1.py: daily_aggregates                                           *)
(***************************************************************************)
\* Timestamps are hours since day 0: day * HorasPorDia + hour.
HorasPorDia == 24

\* Hour of the day at which the modelled station reports.
AggHoras == {12}

Timestamp(dia, hora) == dia * HorasPorDia + hora

\* Timestamp.date(); NaT.date() is NaT.
date(ts) == IF ts = NaT THEN NaT ELSE ts \div HorasPorDia

\* The tables load_data returns: rows sorted by datetime (sort_values puts
\* the NaT rows last), one float column matching 'precip' and one matching
\* 'temperatura'.
Tabela(ts, p, t) ==
    [k \in DOMAIN ts |-> [datetime |-> ts[k], precip |-> p[k], temperatura |-> t[k]]]

\* df2.index.min(), df2.index.max()
\* The timestamps of t that are not NaT.
Validos(t) == {t[k].datetime : k \in DOMAIN t} \ {NaT}

\* df2.index.min(), df2.index.max(): NaT is skipped; NaT when nothing is left.
IndexMin(t) == IF Validos(t) = {} THEN NaT
               ELSE CHOOSE x \in Validos(t) : \A y \in Validos(t) : x <= y
IndexMax(t) == IF Validos(t) = {} THEN NaT
               ELSE CHOOSE x \in Validos(t) : \A y \in Validos(t) : y <= x

\* Mutant: the end of the range is left out.
date_range_aberto(a, b) == SortedSeq(a..(b - 1))

\* pd.date_range(a, b, freq='D'): every day from a to b, both included.
date_range(a, b) == SortedSeq(a..b)

\* Mutant: the rows without a timestamp are binned with the first day.
BinComNaT(t, c, d) ==
    Col(SelectSeq(t, LAMBDA r : \/ r.datetime # NaT /\ date(r.datetime) = d
                                \/ r.datetime = NaT /\ d = date(IndexMin(t))), c)

\* The values of column c in the rows of day d (one bin of resample('D'));
\* the grouper leaves the NaT rows out of every bin.
Bin(t, c, d) ==
    Col(SelectSeq(t, LAMBDA r : r.datetime # NaT /\ date(r.datetime) = d), c)

\* The reducer applied to one bin.
Reducer(f, b) ==
    CASE f = "sum" -> SeriesSum(b)
      [] f = "mean" -> SeriesMean(b)
      [] f = "max" -> SeriesMax(b)
      [] f = "min" -> SeriesMin(b)

\* df2[c].resample('D').f(): one bin per day from the first to the last
\* timestamp's day, empty bins included, each reduced by f.
Resample(t, c, f) ==
    [d \in date(IndexMin(t))..date(IndexMax(t)) |-> Reducer(f, Bin(t, c, d))]

\* Mutant: missing values are counted as zeros.
ResampleMeanFillna(t, c) ==
    [d \in date(IndexMin(t))..date(IndexMax(t)) |->
        LET b == Bin(t, c, d) IN
        SeriesMean([k \in DOMAIN b |-> IF isna(b[k]) THEN Float(0) ELSE b[k]])]

\* Mutant: the daily minimum is the daily mean.
ResampleMinDaMedia(t, c) == Resample(t, c, "mean")

ResampleSum(t, c) == Resample(t, c, "sum")
ResampleMean(t, c) == Resample(t, c, "mean")
ResampleMax(t, c) == Resample(t, c, "max")
ResampleMin(t, c) == Resample(t, c, "min")

\* daily[col] = series: the series is aligned on daily's index; a day the
\* series does not have gets NaN.
Alinha(serie, d) == IF d \in DOMAIN serie THEN serie[d] ELSE NaN

InitAgg ==
    /\ \E n \in 1..AggMaxRows, m \in 0..AggMaxRows :
           /\ m <= n
           /\ \E ts \in Cronologicas(m, {Timestamp(d, h) : d \in 1..AggMaxDay, h \in AggHoras}) :
                  \E p \in [1..n -> {NaN} \cup {Float(x) : x \in AggPrecips}] :
                      \E t \in [1..n -> {NaN} \cup {Float(x) : x \in AggVals}] :
                          tab = Tabela(ComNaT(ts, n), p, t)
    /\ df = <<>>
    /\ SemCarga
    /\ SemFun
    /\ InitCommon
    /\ SemExec

\* df.isna().sum() of one column.
missing_count(t, c) == Cardinality({k \in DOMAIN t : IF c = "datetime"
                                                      THEN t[k][c] = NaT
                                                      ELSE isna(t[k][c])})

\* Mutant: a fraction, not a percentage.
missing_frac(t, c) == Rat(missing_count(t, c), Len(t))

\* miss['missing_count'] / len(df) * 100.0
missing_pct(t, c) == Rat(missing_count(t, c) * 100, Len(t))

\* The columns of the loaded table, in the order of df.columns.
Colunas == <<"precip", "temperatura", "datetime">>

\* The orders sort_values('missing_count', ascending=False) can leave the
\* rows of a frame in: counts non-increasing; the default sort is not stable,
\* so rows with the same count may come out in any order.
OrdenacoesDesc(m) ==
    LET n == Len(m) IN
    {p \in [1..n -> 1..n] :
        /\ \A i \in 1..n, j \in 1..n : i # j => p[i] # p[j]
        /\ \A i \in 1..(n - 1) :
               m[p[i]].missing_count >= m[p[i + 1]].missing_count}

\* missing_report: the frame it returns has one row per column, in column
\* order; a copy sorted by count is written to missing_report.csv.
missing_report ==
    /\ pc = "pronto"
    /\ tab # <<>>
    /\ LET m == [i \in DOMAIN Colunas |->
                    [coluna |-> Colunas[i],
                     missing_count |-> missing_count(tab, Colunas[i]),
                     missing_pct |-> missing_pct(tab, Colunas[i])]]
       IN /\ miss' = m
          /\ \E p \in OrdenacoesDesc(m) :
                 escrito' = [i \in DOMAIN m |-> m[p[i]]]
    /\ pc' = "relatado"
    /\ UNCHANGED <<df, limiar_percentil, dias_consecutivos, limiar, temp_diaria,
                   pos, inicio, duracao, ondas, tab, daily, varsExec, varsCarga,
                   varsFun>>

\* pd.date_range(NaT, NaT) raises ValueError: no row has a timestamp.
daily_aggregates_raises ==
    /\ pc = "pronto"
    /\ tab # <<>>
    /\ IndexMin(tab) = NaT
    /\ pc' = "erro"
    /\ UNCHANGED <<df, limiar_percentil, dias_consecutivos, limiar, temp_diaria,
                   pos, inicio, duracao, ondas, tab, daily, miss, escrito, varsExec, varsCarga, varsFun>>

daily_aggregates ==
    /\ pc = "pronto"
    /\ tab # <<>>
    /\ IndexMin(tab) # NaT
    /\ LET index == date_range(date(IndexMin(tab)), date(IndexMax(tab)))
           soma == ResampleSum(tab, "precip")
           media == ResampleMean(tab, "temperatura")
           maxima == ResampleMax(tab, "temperatura")
           minima == ResampleMin(tab, "temperatura")
       IN daily' = [k \in DOMAIN index |->
                       [date |-> index[k],
                        precip_total_sum_mm |-> Alinha(soma, index[k]),
                        temp_mean_c |-> Alinha(media, index[k]),
                        temp_max_c |-> Alinha(maxima, index[k]),
                        temp_min_c |-> Alinha(minima, index[k])]]
    /\ pc' = "agregado"
    /\ UNCHANGED <<df, limiar_percentil, dias_consecutivos, limiar, temp_diaria,
                   pos, inicio, duracao, ondas, tab, miss, escrito, varsExec, varsCarga, varsFun>>

NextAgg == daily_aggregates \/ daily_aggregates_raises

SpecAgg == InitAgg /\ [][NextAgg]_vars

\* The missingness report on the same tables.
NextRel == missing_report

SpecRel == InitAgg /\ [][NextRel]_vars

\* Both programs, each on its own table.
InitAmbos == Init \/ InitAgg
NextAmbos == Next \/ NextAgg
SpecAmbos == InitAmbos /\ [][NextAmbos]_vars

(***************************************************************************)
(* Properties of daily_aggregates (checked under SpecAgg).                 *)
(***************************************************************************)
\* The rows of tab on day d whose column c is not null.
ComValor(c, d) ==
    {k \in DOMAIN tab : date(tab[k].datetime) = d /\ ~isna(tab[k][c])}

RECURSIVE SomaDe(_, _)
SomaDe(c, K) ==
    IF K = {} THEN Float(0)
    ELSE LET k == CHOOSE k \in K : TRUE
         IN RatAdd(tab[k][c], SomaDe(c, K \ {k}))

\* C8: a day with no non-null observation (no record, or all values null)
\* has a null daily aggregate for every reducer (sum, mean, max, min).
C8_DiaVazioNulo ==
    pc = "agregado" =>
        \A k \in DOMAIN daily :
            /\ ComValor("precip", daily[k].date) = {}
                   => isna(daily[k].precip_total_sum_mm)
            /\ ComValor("temperatura", daily[k].date) = {}
                   => /\ isna(daily[k].temp_mean_c)
                      /\ isna(daily[k].temp_max_c)
                      /\ isna(daily[k].temp_min_c)

\* C9: the daily table has exactly one row for every calendar day from the
\* day of the earliest timestamp to the day of the latest one, in order.
C9_UmaLinhaPorDia ==
    pc = "agregado" =>
        LET dias == {date(x) : x \in Validos(tab)}
            primeiro == CHOOSE d \in dias : \A e \in dias : d <= e
            ultimo == CHOOSE d \in dias : \A e \in dias : e <= d
        IN /\ Len(daily) = ultimo - primeiro + 1
           /\ \A k \in DOMAIN daily : daily[k].date = primeiro + k - 1

C9_Witness ==
    /\ pc = "agregado"
    /\ \E k \in DOMAIN daily :
           \A r \in DOMAIN tab : date(tab[r].datetime) # daily[k].date

\* C10: on a day with at least one non-null observation the daily sum, mean,
\* max and min are those of the day's non-null values only.
C10_SobreNaoNulos ==
    pc = "agregado" =>
        \A k \in DOMAIN daily :
            LET P == ComValor("precip", daily[k].date)
                T == ComValor("temperatura", daily[k].date)
            IN /\ P # {} => daily[k].precip_total_sum_mm = SomaDe("precip", P)
               /\ T # {} =>
                    /\ ~isna(daily[k].temp_mean_c)
                    /\ RatMul(daily[k].temp_mean_c, Float(Cardinality(T)))
                           = SomaDe("temperatura", T)
                    /\ \E r \in T : tab[r].temperatura = daily[k].temp_max_c
                    /\ \A r \in T : RatLe(tab[r].temperatura, daily[k].temp_max_c)
                    /\ \E r \in T : tab[r].temperatura = daily[k].temp_min_c
                    /\ \A r \in T : RatLe(daily[k].temp_min_c, tab[r].temperatura)

C10_Witness ==
    /\ pc = "agregado"
    /\ \E k \in DOMAIN daily :
           /\ \E r \in DOMAIN tab : /\ date(tab[r].datetime) = daily[k].date
                                    /\ isna(tab[r].temperatura)
           /\ \E r \in DOMAIN tab : /\ date(tab[r].datetime) = daily[k].date
                                    /\ isna(tab[r].precip)
           /\ Cardinality(ComValor("temperatura", daily[k].date)) >= 2
           /\ daily[k].temp_min_c # daily[k].temp_max_c
           /\ ComValor("precip", daily[k].date) # {}

\* The non-null values of a daily column, and the non-null hourly
\* temperatures of the rows K.
DiariosNaoNulos(c) == {daily[k][c] : k \in DOMAIN daily} \ {NaN}
HorariosNaoNulos(K) == {tab[k].temperatura : k \in K} \ {NaN}

\* x is the smallest (largest) element of the set of floats S.
MenorDe(x, S) == x \in S /\ \A y \in S : RatLe(x, y)
MaiorDe(x, S) == x \in S /\ \A y \in S : RatLe(y, x)

\* The daily extremes agree with the hourly extremes of the rows K.
ExtremosConsistentes(K) ==
    /\ DiariosNaoNulos("temp_min_c") = {} <=> HorariosNaoNulos(K) = {}
    /\ DiariosNaoNulos("temp_max_c") = {} <=> HorariosNaoNulos(K) = {}
    /\ \A x \in DiariosNaoNulos("temp_min_c") :
           MenorDe(x, DiariosNaoNulos("temp_min_c")) => MenorDe(x, HorariosNaoNulos(K))
    /\ \A x \in DiariosNaoNulos("temp_max_c") :
           MaiorDe(x, DiariosNaoNulos("temp_max_c")) => MaiorDe(x, HorariosNaoNulos(K))

\* C11 as stated: the minimum of the non-null daily minima is the minimum of
\* all non-null hourly values of the loaded table, and the same for maxima.
C11_ExtremosDeTodas ==
    pc = "agregado" => ExtremosConsistentes(DOMAIN tab)

\* C11 amended: the minimum of the non-null daily minima is the minimum of the
\* non-null hourly values of the rows that have a timestamp, and the same
\* for maxima.
C11_ExtremosComTimestamp ==
    pc = "agregado" =>
        ExtremosConsistentes({k \in DOMAIN tab : tab[k].datetime # NaT})

C11_Witness ==
    /\ pc = "agregado"
    /\ Cardinality(DiariosNaoNulos("temp_min_c")) >= 2
    /\ \E k \in DOMAIN tab : tab[k].datetime = NaT /\ ~isna(tab[k].temperatura)

\* C20: in every row of the missingness report the percentage is the null
\* count divided by the number of rows of the table, times 100, and the null
\* count lies between 0 and the number of rows.
C20_PercentualDeNulos ==
    \A i \in DOMAIN miss :
        /\ miss[i].missing_count \in 0..Len(tab)
        /\ RatMul(miss[i].missing_pct, Float(Len(tab)))
               = Float(100 * miss[i].missing_count)
        /\ RatLe(Float(0), miss[i].missing_pct)
        /\ RatLe(miss[i].missing_pct, Float(100))

C20_Witness ==
    \E i \in DOMAIN miss :
        /\ miss[i].missing_count = 1
        /\ miss[i].missing_pct = Rat(100, 3)

\* The rows of the aggregator's table that have a timestamp, and the rows of
\* the detector's table that have a date.
ComTimestamp(t) == SelectSeq(t, LAMBDA r : r.datetime # NaT)
ComData(t) == SelectSeq(t, LAMBDA r : r.Data # NaT)

\* C19: the aggregator and the detector ignore the rows without a timestamp.
\* The daily table is the one of the timestamped rows alone: same days, same
\* sum, mean, max and min on every day. The detector's daily series is the
\* one of the dated rows alone and has no entry and no event on a null date.
\* Neither stage fails because of such rows: the aggregator raises only when
\* no row at all has a timestamp.
C19_IgnoraSemTimestamp ==
    /\ pc = "agregado" =>
           LET t == ComTimestamp(tab)
               index == date_range(date(IndexMin(t)), date(IndexMax(t)))
           IN /\ t # <<>>
              /\ Len(daily) = Len(index)
              /\ \A k \in DOMAIN daily :
                     /\ daily[k].date = index[k]
                     /\ daily[k].precip_total_sum_mm
                            = Reducer("sum", Bin(t, "precip", index[k]))
                     /\ daily[k].temp_mean_c
                            = Reducer("mean", Bin(t, "temperatura", index[k]))
                     /\ daily[k].temp_max_c
                            = Reducer("max", Bin(t, "temperatura", index[k]))
                     /\ daily[k].temp_min_c
                            = Reducer("min", Bin(t, "temperatura", index[k]))
    /\ pc = "erro" => ComTimestamp(tab) = <<>>
    /\ pc \in {"calor", "frio", "fim_calor", "fim_frio"} =>
           /\ temp_diaria = GroupbyMean(ComData(df))
           /\ temp_diaria # <<>>
           /\ \A g \in DOMAIN temp_diaria : temp_diaria[g].Data # NaT
           /\ \A i \in DOMAIN ondas : ondas[i].inicio # NaT /\ ondas[i].fim # NaT

C19_Witness ==
    /\ pc = "agregado"
    /\ Len(daily) >= 2
    /\ \E k \in DOMAIN tab : /\ tab[k].datetime = NaT
                              /\ ~isna(tab[k].temperatura)
                              /\ ~isna(tab[k].precip)

\* The detector's side of the same case: a finished scan of a table that has
\* a row with a value and no date.
C19_DetectorAlcancado ==
    /\ pc = "fim_calor"
    /\ ondas # <<>>
    /\ \E k \in DOMAIN df : df[k].Data = NaT /\ ~isna(df[k].Temperatura)

(***************************************************************************)
(* analise1.py, analise_maio_9h10h.py: clean_col_name                      *)
(***************************************************************************)
\* A string is a sequence of characters; a character is a one-character
\* string, or the name of its code point when it is not ASCII.
Minusculas == {"a", "b", "c", "d", "h", "o", "r", "t", "u"}
Maiusculas == {"B", "C", "D", "H", "T", "U"}
Digitos == {"1"}

\* The characters column names are made of here: letters of both cases, a
\* digit, the underscore, the blank, an accented letter and the replacement
\* character that a wrongly decoded byte turns into.
Alfabeto == {"a", "B", "1", "_", " ", "U+00E9", "U+FFFD"}

\* col.replace('\ufffd', 'o')
Replace(col) == [k \in DOMAIN col |-> IF col[k] = "U+FFFD" THEN "o" ELSE col[k]]

\* The class [0-9a-zA-Z].
Alnum(c) == c \in Minusculas \cup Maiusculas \cup Digitos

\* Mutant: the pattern without the +, one underscore per character.
RECURSIVE ReSubCadaUm(_)
ReSubCadaUm(col) ==
    IF col = <<>> THEN <<>>
    ELSE <<IF Alnum(Head(col)) THEN Head(col) ELSE "_">> \o ReSubCadaUm(Tail(col))

\* re.sub(r"[^0-9a-zA-Z]+", '_', col): every maximal run of characters
\* outside the class becomes one underscore.
RECURSIVE ReSub(_)
ReSub(col) ==
    IF col = <<>> THEN <<>>
    ELSE IF Alnum(Head(col)) THEN <<Head(col)>> \o ReSub(Tail(col))
    ELSE IF Len(col) >= 2 /\ ~Alnum(col[2]) THEN ReSub(Tail(col))
    ELSE <<"_">> \o ReSub(Tail(col))

\* col.lstrip(c), col.rstrip(c), col.strip(c)
RECURSIVE LStrip(_, _)
LStrip(col, c) ==
    IF col # <<>> /\ Head(col) = c THEN LStrip(Tail(col), c) ELSE col
RECURSIVE RStrip(_, _)
RStrip(col, c) ==
    IF col # <<>> /\ col[Len(col)] = c
    THEN RStrip(SubSeq(col, 1, Len(col) - 1), c) ELSE col
Strip(col, c) == RStrip(LStrip(col, c), c)

\* The lowercase letter of an uppercase one.
Minuscula ==
    ("B" :> "b") @@ ("C" :> "c") @@ ("D" :> "d") @@ ("H" :> "h") @@
    ("T" :> "t") @@ ("U" :> "u")

\* col.lower()
Lower(col) == [k \in DOMAIN col |-> IF col[k] \in Maiusculas THEN Minuscula[col[k]]
                                    ELSE col[k]]

clean_col_name(col) == Lower(Strip(ReSub(Replace(Replace(col))), "_"))

InitCol ==
    /\ \E n \in 0..MaxNome : arg \in [1..n -> Alfabeto]
    /\ ret = <<>>
    /\ df = <<>>
    /\ tab = <<>>
    /\ SemCarga
    /\ InitCommon
    /\ SemExec

\* ret = clean_col_name(arg)
ChamaClean ==
    /\ pc = "pronto"
    /\ ret' = clean_col_name(arg)
    /\ pc' = "limpo"
    /\ UNCHANGED <<df, limiar_percentil, dias_consecutivos, limiar, temp_diaria,
                   pos, inicio, duracao, ondas, tab, daily, miss, escrito, varsExec, varsCarga, arg>>

\* The cleaned name is cleaned again.
ChamaCleanDeNovo ==
    /\ pc = "limpo"
    /\ arg' = ret
    /\ ret' = clean_col_name(ret)
    /\ pc' = "relimpo"
    /\ UNCHANGED <<df, limiar_percentil, dias_consecutivos, limiar, temp_diaria,
                   pos, inicio, duracao, ondas, tab, daily, miss, escrito, varsExec, varsCarga>>

NextCol == ChamaClean \/ ChamaCleanDeNovo

SpecCol == InitCol /\ [][NextCol]_vars

\* C12: clean_col_name is idempotent, and its result holds only lowercase
\* ASCII letters, digits and underscores, with no underscore at either end
\* and no two underscores next to each other.
C12_NomeLimpo ==
    /\ pc \in {"limpo", "relimpo"} =>
           /\ \A k \in DOMAIN ret : ret[k] \in Minusculas \cup Digitos \cup {"_"}
           /\ ret # <<>> => ret[1] # "_" /\ ret[Len(ret)] # "_"
           /\ \A k \in 1..(Len(ret) - 1) : ~(ret[k] = "_" /\ ret[k + 1] = "_")
    /\ pc = "relimpo" => ret = arg

C12_Witness ==
    /\ pc = "limpo"
    /\ \E k \in 2..(Len(arg) - 2) : /\ arg[k] \in {" ", "U+00E9"}
                                     /\ arg[k + 1] \in {" ", "_"}
    /\ arg[1] \in Maiusculas
    /\ ret = <<"b", "_", arg[Len(arg)]>>

(***************************************************************************)
(* Numeric field conversion (load_data, load_and_filter_data,              *)
(* AnalisadorClimatico._processar_dados)                                   *)
(***************************************************************************)
\* The characters of a numeric field: digits, decimal comma, point, blank
\* and a letter.
Algarismos == {"1", "5"}
CharsCampo == Algarismos \cup {",", ".", " ", "x"}

DigitVal(c) == IF c = "1" THEN 1 ELSE 5

\* read_csv turns an empty field into NaN; astype(str) turns NaN into 'nan'.
AsTypeStr(campo) == IF campo = <<>> THEN <<"n", "a", "n">> ELSE campo

\* .str.replace(',', '.')
ReplaceComma(t) == [k \in DOMAIN t |-> IF t[k] = "," THEN "." ELSE t[k]]

\* .str.replace(' ', '')
RemoveSpaces(t) == SelectSeq(t, LAMBDA c : c # " ")

\* The integer written by a sequence of digits (0 for none).
RECURSIVE IntOf(_)
IntOf(ds) ==
    IF ds = <<>> THEN 0
    ELSE 10 * IntOf(SubSeq(ds, 1, Len(ds) - 1)) + DigitVal(ds[Len(ds)])

RECURSIVE Pow10(_)
Pow10(n) == IF n = 0 THEN 1 ELSE 10 * Pow10(n - 1)

\* The float a text denotes: digits with at most one point and at least one
\* digit; NaN for anything else ('nan' included).
ParseFloat(t) ==
    LET pontos == {k \in DOMAIN t : t[k] = "."}
        ds == SelectSeq(t, LAMBDA c : c \in Algarismos)
    IN IF \/ ds = <<>>
          \/ Cardinality(pontos) > 1
          \/ \E k \in DOMAIN t : t[k] \notin Algarismos \cup {"."}
       THEN NaN
       ELSE IF pontos = {} THEN Rat(IntOf(ds), 1)
       ELSE LET k == CHOOSE k \in pontos : TRUE
            IN Rat(IntOf(ds), Pow10(Len(t) - k))

\* pd.to_numeric(text, errors='coerce'): the parser skips the whitespace
\* around the number; what it cannot parse is NaN.
ToNumeric(t) == ParseFloat(Strip(t, " "))

\* analise1.py 61, analise_maio_9h10h.py 49-52
ConverteCarga(campo) == ToNumeric(RemoveSpaces(ReplaceComma(AsTypeStr(campo))))

\* analise_climatica_completa.py 95, analise_temperatura_detalhada.py 65-68
ConverteClasse(campo) == ToNumeric(ReplaceComma(AsTypeStr(campo)))

InitNum ==
    /\ \E n \in 0..MaxCampo : arg \in [1..n -> CharsCampo]
    /\ ret = <<>>
    /\ df = <<>>
    /\ tab = <<>>
    /\ SemCarga
    /\ InitCommon
    /\ SemExec

\* One field converted by load_data or load_and_filter_data.
ConverteEmCarga ==
    /\ pc = "pronto"
    /\ ret' = ConverteCarga(arg)
    /\ pc' = "load_data"
    /\ UNCHANGED <<df, limiar_percentil, dias_consecutivos, limiar, temp_diaria,
                   pos, inicio, duracao, ondas, tab, daily, miss, escrito, varsExec, varsCarga, arg>>

\* One field converted by _processar_dados of the two classes.
ConverteEmClasse ==
    /\ pc = "pronto"
    /\ ret' = ConverteClasse(arg)
    /\ pc' = "_processar_dados"
    /\ UNCHANGED <<df, limiar_percentil, dias_consecutivos, limiar, temp_diaria,
                   pos, inicio, duracao, ondas, tab, daily, miss, escrito, varsExec, varsCarga, arg>>

NextNum == ConverteEmCarga \/ ConverteEmClasse

SpecNum == InitNum /\ [][NextNum]_vars

\* What the field denotes: surrounding whitespace trimmed, decimal comma
\* replaced by a point, parsed as a float; null when that is not a number.
Denota(campo) == ParseFloat(ReplaceComma(Strip(campo, " ")))

\* C15: the converted value is the float the field denotes after trimming
\* the surrounding whitespace and replacing the decimal comma by a point, and
\* null when that text is not a number: never an error, never a zero (or any
\* other number) for an unparseable field.
C15_ValorDenotado ==
    pc \in {"load_data", "_processar_dados"} => ret = Denota(arg)

(***************************************************************************)
(* The loaders: load_data, load_and_filter_data and the _processar_dados   *)
(* of the two classes                                                      *)
(***************************************************************************)
\* Header names of a station export, as written in the file.
NomeData == <<"D", "a", "t", "a">>
NomeHora == <<"H", "o", "r", "a", " ", "U", "T", "C">>
NomeTemp == <<"T">>

\* The names load_data looks for after clean_col_name.
ColData == <<"d", "a", "t", "a">>
ColHoraUtc == <<"h", "o", "r", "a", "_", "u", "t", "c">>

\* The column load_data adds.
ColDatetime == <<"d", "a", "t", "e", "t", "i", "m", "e">>

\* Headers: the full one, and those lacking the date, the hour code or both.
Cabecalhos == {<<NomeData, NomeHora, NomeTemp>>, <<NomeHora, NomeTemp>>,
               <<NomeData, NomeTemp>>, <<NomeTemp>>}

\* A date field is a sequence of tokens: year, separator, month, separator,
\* day. Three dates in the export's format, one in ISO format, one that is
\* no date at all.
DataTexto(sep, m, d) == <<"2025", sep, m, sep, d>>
Lixo == <<"x">>
CamposData == {DataTexto("/", "05", "01"), DataTexto("/", "05", "02"),
               DataTexto("/", "06", "01"), DataTexto("-", "05", "01"), Lixo}

\* An hour code is a sequence of characters: HHMM and the suffix ' UTC'.
HoraTexto(h1, h2) == <<h1, h2, "0", "0", " ", "U", "T", "C">>
CamposHora == {HoraTexto("0", "9"), HoraTexto("1", "0"), Lixo}

\* The numeric field of every line.
CamposTemp == {<<"1", ",", "5">>}

\* Values of the month and day tokens and of the digits.
Mes == ("05" :> 5) @@ ("06" :> 6)
Dia == ("01" :> 1) @@ ("02" :> 2)
Digito ==
    ("0" :> 0) @@ ("1" :> 1) @@ ("2" :> 2) @@ ("3" :> 3) @@ ("4" :> 4) @@
    ("5" :> 5) @@ ("6" :> 6) @@ ("7" :> 7) @@ ("8" :> 8) @@ ("9" :> 9)

\* A timestamp of the loaders, in minutes: month, day, hour and minute (the
\* year is the same throughout).
Instante(mes, dia, hora, minuto) == ((mes * 32 + dia) * 24 + hora) * 60 + minuto

\* .dt.month, .dt.day, .dt.hour, .dt.minute
dt_month(ts) == ts \div (32 * 24 * 60)
dt_day(ts) == (ts \div (24 * 60)) % 32
dt_hour(ts) == (ts \div 60) % 24
dt_minute(ts) == ts % 60

\* df['hora_utc'].astype(str).str[:4]
hora_part(h) == SubSeq(h, 1, IF Len(h) < 4 THEN Len(h) ELSE 4)

\* df['data'].astype(str) + ' ' + hora_part
dt_str(linha) == linha.data \o <<" ">> \o hora_part(linha.hora)

\* Mutant: the hour is read from the minute digits.
PercentHDosMinutos(hhmm) == 10 * Digito[hhmm[3]] + Digito[hhmm[4]]

\* %H and %M of a four-digit HHMM.
PercentH(hhmm) == 10 * Digito[hhmm[1]] + Digito[hhmm[2]]
PercentM(hhmm) == 10 * Digito[hhmm[3]] + Digito[hhmm[4]]

\* One text parsed with the format '%Y<sep>%m<sep>%d %H%M': NaT when the
\* text does not match the format.
ParseComFormato(t, sep) ==
    IF /\ Len(t) = 10
       /\ t[1] = "2025" /\ t[2] = sep /\ t[4] = sep /\ t[6] = " "
       /\ t[3] \in DOMAIN Mes
       /\ t[5] \in DOMAIN Dia
       /\ \A k \in 7..10 : t[k] \in DOMAIN Digito
       /\ PercentH(SubSeq(t, 7, 10)) <= 23
       /\ PercentM(SubSeq(t, 7, 10)) <= 59
    THEN Instante(Mes[t[3]], Dia[t[5]],
                  PercentH(SubSeq(t, 7, 10)), PercentM(SubSeq(t, 7, 10)))
    ELSE NaT

\* pd.to_datetime(dt_str, format='%Y/%m/%d %H%M') on one text.
ParseEstrito(t) == ParseComFormato(t, "/")

\* The separator of the format pandas infers from a text; "" when it
\* infers none.
FormatoInferido(t) ==
    IF ParseComFormato(t, "/") # NaT THEN "/"
    ELSE IF ParseComFormato(t, "-") # NaT THEN "-"
    ELSE ""

\* The per-element parser: any text that is a date and a time.
ParseElemento(t) ==
    IF FormatoInferido(t) = "" THEN NaT
    ELSE ParseComFormato(t, FormatoInferido(t))

\* pd.to_datetime(dt_str, errors='coerce') on the whole column. Depending on
\* the pandas in use, either every text is parsed on its own ("elemento"), or
\* the format is inferred from the first text and applied to all
\* ("inferido"), falling back to per-element parsing when none is inferred.
ModosCoerce == {"elemento", "inferido"}
ParseCoerce(ts, modo) ==
    IF modo = "elemento" \/ ts = <<>> \/ FormatoInferido(ts[1]) = ""
    THEN [k \in DOMAIN ts |-> ParseElemento(ts[k])]
    ELSE [k \in DOMAIN ts |-> ParseComFormato(ts[k], FormatoInferido(ts[1]))]

\* The try/except: the strict parse of the whole column, which raises when
\* one text does not match, then the coercing one.
ToDatetime(ts, modo) ==
    IF \A k \in DOMAIN ts : ParseEstrito(ts[k]) # NaT
    THEN [k \in DOMAIN ts |-> ParseEstrito(ts[k])]
    ELSE ParseCoerce(ts, modo)

\* The orders sort_values('datetime') can leave n rows in (positions of the
\* original rows): timestamps non-decreasing, the NaT rows last in their
\* original order. The default sort is not stable, so rows with the same
\* timestamp may come out in any order.
Ordenacoes(dts) ==
    LET n == Len(dts) IN
    {p \in [1..n -> 1..n] :
        /\ \A i \in 1..n, j \in 1..n : i # j => p[i] # p[j]
        /\ \A i \in 1..(n - 1) :
               \/ dts[p[i]] # NaT /\ dts[p[i + 1]] # NaT /\ dts[p[i]] <= dts[p[i + 1]]
               \/ dts[p[i]] # NaT /\ dts[p[i + 1]] = NaT
               \/ dts[p[i]] = NaT /\ dts[p[i + 1]] = NaT /\ p[i] < p[i + 1]}

\* Mutant: the rows without a timestamp are dropped.
reset_index_dropna(linhas) == SelectSeq(linhas, LAMBDA r : r.datetime # NaT)

\* .reset_index(drop=True): the rows as they are, renumbered.
reset_index(linhas) == linhas

\* The columns after cleaning.
Colunas_limpas(header) == [i \in DOMAIN header |-> clean_col_name(header[i])]
TemColuna(cols, nome) == \E i \in DOMAIN cols : cols[i] = nome
TemDataEHora(header) ==
    /\ TemColuna(Colunas_limpas(header), ColData)
    /\ TemColuna(Colunas_limpas(header), ColHoraUtc)

\* The files: a header and up to MaxLinhas body lines; a line has a field
\* only for the columns of the header.
InitLoad ==
    /\ \E h \in Cabecalhos, n \in 1..MaxLinhas :
           \E ds \in [1..n -> IF TemColuna(h, NomeData) THEN CamposData ELSE {<<>>}],
              hs \in [1..n -> IF TemColuna(h, NomeHora) THEN CamposHora ELSE {<<>>}],
              vs \in [1..n -> CamposTemp] :
               csv = [header |-> h,
                      body |-> [k \in 1..n |->
                                   [data |-> ds[k], hora |-> hs[k], temp |-> vs[k]]]]
    /\ out = <<>>
    /\ df = <<>>
    /\ tab = <<>>
    /\ SemFun
    /\ InitCommon
    /\ SemExec

\* load_data: the rows sorted by the new datetime column when the header has
\* both 'data' and 'hora_utc'; otherwise the rows as read, with no datetime
\* column. The numeric column is converted either way.
load_data ==
    /\ pc = "pronto"
    /\ LET n == Len(csv.body)
           cols == Colunas_limpas(csv.header)
       IN IF TemDataEHora(csv.header)
          THEN \E modo \in ModosCoerce :
                   LET dts == ToDatetime([k \in 1..n |-> dt_str(csv.body[k])], modo)
                   IN \E p \in Ordenacoes(dts) :
                          out' = [status |-> "ok",
                                  colunas |-> cols \o <<ColDatetime>>,
                                  linhas |-> reset_index(
                                      [i \in 1..n |->
                                          [linha |-> p[i],
                                           datetime |-> dts[p[i]],
                                           temp |-> ConverteCarga(csv.body[p[i]].temp)]])]
          ELSE out' = [status |-> "ok",
                       colunas |-> cols,
                       linhas |-> [i \in 1..n |->
                                      [linha |-> i,
                                       temp |-> ConverteCarga(csv.body[i].temp)]]]
    /\ pc' = "load_data"
    /\ UNCHANGED <<df, limiar_percentil, dias_consecutivos, limiar, temp_diaria,
                   pos, inicio, duracao, ondas, tab, daily, miss, escrito, varsExec, csv, varsFun>>

\* Mutant: the mask keeps every hour of May.
MascaraQualquerHora(dt) == dt # NaT /\ dt_month(dt) = 5

\* mask = (df['month'] == 5) & (df['hour'] == 9); month and hour of a null
\* timestamp are NaN, which equals nothing.
Mascara(dt) == dt # NaT /\ dt_month(dt) = 5 /\ dt_hour(dt) = 9

\* load_and_filter_data: the rows of May at hour 9, sorted. The datetime
\* column is read whether or not it was made, so a header without 'data' or
\* 'hora_utc' ends in KeyError: 'datetime'.
load_and_filter_data ==
    /\ pc = "pronto"
    /\ LET n == Len(csv.body)
           cols == Colunas_limpas(csv.header)
       IN IF TemDataEHora(csv.header)
          THEN \E modo \in ModosCoerce :
                   LET dts == ToDatetime([k \in 1..n |-> dt_str(csv.body[k])], modo)
                       todas == [k \in 1..n |->
                                    [linha |-> k,
                                     datetime |-> dts[k],
                                     temp |-> ConverteCarga(csv.body[k].temp)]]
                       df_filtered ==
                           SelectSeq(todas, LAMBDA r : Mascara(r.datetime))
                   IN \E p \in Ordenacoes([i \in DOMAIN df_filtered |->
                                               df_filtered[i].datetime]) :
                          out' = [status |-> "ok",
                                  colunas |-> cols \o <<ColDatetime>>,
                                  linhas |-> reset_index(
                                      [i \in DOMAIN df_filtered |-> df_filtered[p[i]]])]
          ELSE out' = [status |-> "erro", erro |-> "KeyError", chave |-> ColDatetime]
    /\ pc' = "load_and_filter_data"
    /\ UNCHANGED <<df, limiar_percentil, dias_consecutivos, limiar, temp_diaria,
                   pos, inicio, duracao, ondas, tab, daily, miss, escrito, varsExec, csv, varsFun>>

\* pd.to_datetime(self.df['Data'], format='%Y/%m/%d') on one text: the
\* day at midnight, NaT standing for the ValueError of a text that does not
\* match.
ParseDataEstrita(d) ==
    IF /\ Len(d) = 5
       /\ d[1] = "2025" /\ d[2] = "/" /\ d[4] = "/"
       /\ d[3] \in DOMAIN Mes
       /\ d[5] \in DOMAIN Dia
    THEN Instante(Mes[d[3]], Dia[d[5]], 0, 0)
    ELSE NaT

\* self.df['Hora UTC'].str[:2].astype(int) on one text: -1 standing for the
\* ValueError of int() on a text that is not a number.
HoraInt(h) ==
    IF Len(h) >= 2 /\ h[1] \in DOMAIN Digito /\ h[2] \in DOMAIN Digito
    THEN 10 * Digito[h[1]] + Digito[h[2]]
    ELSE -1

Classes == {"AnalisadorClimatico", "AnalisadorTemperaturaDetalhado"}

\* __init__ and _processar_dados of the two classes: the columns are taken by
\* their names in the file; the date column is parsed strictly and, in
\* AnalisadorTemperaturaDetalhado, the hour is the integer of the first two
\* characters of the hour code. Any text that does not parse raises.
ProcessarDados(classe) ==
    /\ pc = "pronto"
    /\ LET n == Len(csv.body) IN
       out' = IF ~TemColuna(csv.header, NomeData)
              THEN [status |-> "erro", erro |-> "KeyError", chave |-> NomeData]
              ELSE IF \E k \in 1..n : ParseDataEstrita(csv.body[k].data) = NaT
              THEN [status |-> "erro", erro |-> "ValueError", chave |-> NomeData]
              ELSE IF classe = "AnalisadorClimatico"
              THEN [status |-> "ok",
                    colunas |-> csv.header,
                    linhas |-> [k \in 1..n |->
                                   [linha |-> k,
                                    Data |-> ParseDataEstrita(csv.body[k].data),
                                    temp |-> ConverteClasse(csv.body[k].temp)]]]
              ELSE IF ~TemColuna(csv.header, NomeHora)
              THEN [status |-> "erro", erro |-> "KeyError", chave |-> NomeHora]
              ELSE IF \E k \in 1..n : HoraInt(csv.body[k].hora) = -1
              THEN [status |-> "erro", erro |-> "ValueError", chave |-> NomeHora]
              ELSE [status |-> "ok",
                    colunas |-> csv.header,
                    linhas |-> [k \in 1..n |->
                                   [linha |-> k,
                                    Data |-> ParseDataEstrita(csv.body[k].data),
                                    Hora |-> HoraInt(csv.body[k].hora),
                                    temp |-> ConverteClasse(csv.body[k].temp)]]]
    /\ pc' = classe
    /\ UNCHANGED <<df, limiar_percentil, dias_consecutivos, limiar, temp_diaria,
                   pos, inicio, duracao, ondas, tab, daily, miss, escrito, varsExec, csv, varsFun>>

NextLoad ==
    \/ load_data
    \/ load_and_filter_data
    \/ \E classe \in Classes : ProcessarDados(classe)

SpecLoad == InitLoad /\ [][NextLoad]_vars

(***************************************************************************)
(* Properties of the loaders (checked under SpecLoad).                     *)
(***************************************************************************)
\* A loader has returned a table that has the datetime column.
Carregou ==
    /\ pc \in {"load_data", "load_and_filter_data"}
    /\ out.status = "ok"
    /\ TemColuna(out.colunas, ColDatetime)

Rodou == pc \in {"load_data", "load_and_filter_data"} \cup Classes

\* The line's date or hour code is no date or hour at all.
Ilegivel(linha) == linha.data = Lixo \/ linha.hora = Lixo

\* C14: when a line's date or hour code cannot be parsed, the loader -
\* load_data, load_and_filter_data or the _processar_dados of either class -
\* does not raise: it goes on and the line gets a null timestamp.
C14_NuncaLevanta ==
    (/\ Rodou
     /\ TemColuna(csv.header, NomeData)
     /\ TemColuna(csv.header, NomeHora)
     /\ \E k \in DOMAIN csv.body : Ilegivel(csv.body[k]))
        => /\ out.status = "ok"
           /\ pc \in {"load_data", "load_and_filter_data"} =>
                  \A i \in DOMAIN out.linhas :
                      Ilegivel(csv.body[out.linhas[i].linha])
                          => out.linhas[i].datetime = NaT

\* C16: the table load_data returns is ordered by timestamp, non-decreasing,
\* and rows with the same timestamp are in the order of the file.
C16_OrdenacaoEstavel ==
    (pc = "load_data" /\ Carregou) =>
        \A i \in DOMAIN out.linhas, j \in DOMAIN out.linhas :
            (/\ i < j
             /\ out.linhas[i].datetime # NaT
             /\ out.linhas[j].datetime # NaT)
                => /\ out.linhas[i].datetime <= out.linhas[j].datetime
                   /\ out.linhas[i].datetime = out.linhas[j].datetime
                          => out.linhas[i].linha < out.linhas[j].linha

\* C17: when the header lacks the date column or the hour-code column the
\* loader stops with an error that names the missing field, and returns no
\* table without a time axis.
C17_CabecalhoIncompleto ==
    (/\ pc \in {"load_data", "load_and_filter_data"}
     /\ ~TemDataEHora(csv.header))
        => /\ out.status = "erro"
           /\ out.chave \in {ColData, ColHoraUtc}
           /\ ~TemColuna(Colunas_limpas(csv.header), out.chave)

\* C18: load_data keeps the rows whose timestamp is null: the table it
\* returns has one row for every body line of the file.
C18_UmaLinhaPorRegistro ==
    pc = "load_data" =>
        /\ out.status = "ok"
        /\ Len(out.linhas) = Len(csv.body)
        /\ \A k \in DOMAIN csv.body :
               Cardinality({i \in DOMAIN out.linhas : out.linhas[i].linha = k}) = 1

C18_Witness ==
    /\ pc = "load_data"
    /\ Carregou
    /\ Len(csv.body) = 3
    /\ Cardinality({i \in DOMAIN out.linhas : out.linhas[i].datetime = NaT}) = 2
    /\ out.linhas[1].linha = 2

(***************************************************************************)
(* Properties of missing_report (checked under SpecRel).                   *)
(***************************************************************************)
\* Alphabetical rank of the variable identifiers.
OrdemAlfabetica == ("datetime" :> 1) @@ ("precip" :> 2) @@ ("temperatura" :> 3)

\* The rows of m are in descending order of count, rows of equal count in
\* the order of their identifiers.
DescendentePorContagem(m) ==
    \A i \in 1..(Len(m) - 1) :
        \/ m[i].missing_count > m[i + 1].missing_count
        \/ /\ m[i].missing_count = m[i + 1].missing_count
           /\ OrdemAlfabetica[m[i].coluna] < OrdemAlfabetica[m[i + 1].coluna]

\* C21: the missingness table missing_report delivers - the frame it
\* returns and the file it writes - is sorted by descending null count, and
\* variables with the same count are in the order of their identifiers.
C21_RelatorioOrdenado ==
    pc = "relatado" =>
        /\ DescendentePorContagem(miss)
        /\ DescendentePorContagem(escrito)

\* C22: every variable's null count is at least the number of rows whose
\* timestamp is null.
C22_SemTimestampContaComoNulo ==
    pc = "relatado" =>
        \A i \in DOMAIN miss :
            miss[i].missing_count >= missing_count(tab, "datetime")

(***************************************************************************)
(* No data and short series (checked under SpecAmbos and Spec).            *)
(***************************************************************************)
\* The rows the aggregator can use have a timestamp; the rows the detector
\* can use have a date and a temperature.
UsaveisAgregador == {k \in DOMAIN tab : tab[k].datetime # NaT}
UsaveisDetector ==
    {k \in DOMAIN df : df[k].Data # NaT /\ ~isna(df[k].Temperatura)}

\* C23: with zero usable rows neither stage returns a result: the
\* aggregator returns no daily table and the detector returns no event list,
\* not even an empty one.
C23_SemDadosFalha ==
    /\ pc = "agregado" => UsaveisAgregador # {}
    /\ pc \in {"fim_calor", "fim_frio"} => UsaveisDetector # {}

\* C24: a detector run on a series with fewer days than the run length it
\* looks for does not return an event list: it ends in an
\* insufficient-history condition, so a returned list always comes from a
\* series long enough to hold an event.
C24_HistoricoInsuficiente ==
    Retornou => Len(temp_diaria) >= dias_consecutivos

\* C27: every event covers consecutive calendar days: its duracao is
\* fim - inicio + 1 and its fim is the date of a qualifying day of the
\* scanned series, also when the series has calendar days without records.
C27_DiasDeCalendario ==
    Varrendo =>
        \A i \in DOMAIN ondas :
            /\ ondas[i].duracao = ondas[i].fim - ondas[i].inicio + 1
            /\ \E k \in DOMAIN temp_diaria :
                   temp_diaria[k].Data = ondas[i].fim /\ Qualifica(k)

(***************************************************************************)
(* Properties of load_and_filter_data (checked under SpecLoad).            *)
(***************************************************************************)
\* C26: load_and_filter_data returns exactly the lines of the file whose
\* timestamp is in May at hour 9, each once and with that timestamp, in
\* non-decreasing timestamp order: no line of another month or hour and no
\* line with a null timestamp is returned, and no May-hour-9 line is lost.
C26_MaioAsNove ==
    (pc = "load_and_filter_data" /\ out.status = "ok") =>
        \E modo \in ModosCoerce :
            LET dts == ToDatetime([k \in DOMAIN csv.body |-> dt_str(csv.body[k])], modo)
            IN /\ \A k \in DOMAIN csv.body :
                      Cardinality({i \in DOMAIN out.linhas : out.linhas[i].linha = k})
                          = IF /\ dts[k] # NaT
                               /\ dt_month(dts[k]) = 5
                               /\ dt_hour(dts[k]) = 9
                            THEN 1 ELSE 0
               /\ \A i \in DOMAIN out.linhas :
                      /\ out.linhas[i].linha \in DOMAIN csv.body
                      /\ out.linhas[i].datetime = dts[out.linhas[i].linha]
               /\ \A i \in 1..(Len(out.linhas) - 1) :
                      out.linhas[i].datetime <= out.linhas[i + 1].datetime

C26_Witness ==
    /\ pc = "load_and_filter_data"
    /\ out.status = "ok"
    /\ Len(csv.body) = 3
    /\ Len(out.linhas) = 2
    /\ out.linhas[1].linha > out.linhas[2].linha
    /\ out.linhas[1].datetime < out.linhas[2].datetime
    /\ \E k \in DOMAIN csv.body :
           /\ csv.body[k].data = DataTexto("/", "05", "01")
           /\ csv.body[k].hora = HoraTexto("1", "0")

\* The timestamp the strict format gives a line on its own (NaT when the
\* line is not well formed).
Estrito(k) == ParseEstrito(dt_str(csv.body[k]))

\* C29: the timestamp of a well-formed line depends on that line alone: it
\* is the strict parse of the line whatever the other lines are, so the
\* fallback neither changes nor nulls it, and load_and_filter_data does not
\* lose a well-formed line of May at hour 9.
C29_LinhaIndependente ==
    Carregou =>
        /\ \A i \in DOMAIN out.linhas :
               Estrito(out.linhas[i].linha) # NaT
                   => out.linhas[i].datetime = Estrito(out.linhas[i].linha)
        /\ pc = "load_and_filter_data" =>
               \A k \in DOMAIN csv.body :
                   (/\ Estrito(k) # NaT
                    /\ dt_month(Estrito(k)) = 5
                    /\ dt_hour(Estrito(k)) = 9)
                       => \E i \in DOMAIN out.linhas : out.linhas[i].linha = k

(***************************************************************************)
(* Heat and cold events of the same data (checked under Spec).             *)
(***************************************************************************)
\* The loop of detectar_ondas_calor ("calor") or detectar_ondas_frio
\* ("frio") from entry k of the daily series t, with the open run's first
\* day ini and length dur: the periods (inicio, fim) of the events appended
\* from there on.
RECURSIVE Varre(_, _, _, _, _, _, _)
Varre(tipo, t, lim, dias, k, ini, dur) ==
    IF k > Len(t) THEN <<>>
    ELSE LET data == t[k].Data
             qualifica == IF tipo = "calor" THEN Acima(t[k].media, lim)
                          ELSE Abaixo(t[k].media, lim)
         IN IF qualifica
            THEN Varre(tipo, t, lim, dias, k + 1,
                       IF ini = None THEN data ELSE ini, dur + 1)
            ELSE (IF Suficiente(dur, dias)
                  THEN <<[inicio |-> ini, fim |-> Fim(data)]>>
                  ELSE <<>>)
                 \o Varre(tipo, t, lim, dias, k + 1, None, 0)

\* The periods of the events the other detector returns on the same table
\* with percentile q and run length dias.
OutroDetector(q, dias) ==
    Varre(IF Calor THEN "frio" ELSE "calor",
          GroupbyMean(df), CalcularLimiar(df, q), dias, 1, None, 0)

\* The percentile q of the other detector is compatible with the running
\* one: the heat percentile is at least the cold percentile.
Compativel(q) == IF Calor THEN q <= limiar_percentil ELSE q >= limiar_percentil

\* C28: on the same data, with a heat percentile at or above the cold
\* percentile, no day lies both in a heat event and in a cold event: every
\* event one detector returned ends before, or starts after, every event of
\* the other detector, whatever the run lengths.
C28_CalorEFrioDisjuntos ==
    (Retornou /\ ondas # <<>>) =>
        \A q \in Percentis, dias \in DiasConsecutivos :
            Compativel(q) =>
                LET outras == OutroDetector(q, dias) IN
                \A i \in DOMAIN ondas, j \in DOMAIN outras :
                    \/ ondas[i].fim < outras[j].inicio
                    \/ outras[j].fim < ondas[i].inicio

C28_Witness ==
    /\ Retornou
    /\ ondas # <<>>
    /\ \E k \in 1..(Len(temp_diaria) - 1) :
           temp_diaria[k + 1].Data > temp_diaria[k].Data + 1
    /\ \E q \in Percentis :
           /\ Compativel(q)
           /\ OutroDetector(q, dias_consecutivos) # <<>>

(***************************************************************************)
(* The complete runs: executar_analise_completa of the two classes and     *)
(* main of analise_maio_9h10h, one step per call they make. A caller may   *)
(* also call a method on its own, before or after the run.                 *)
(***************************************************************************)
Programas == Classes \cup {"analise_maio_9h10h"}

\* Mutant: the report is written first.
RelatorioPrimeiro ==
    <<"gerar_relatorio_completo", "estatisticas_descritivas", "analise_horaria",
      "analise_periodo_dia", "analise_dia_semana", "analise_mensal",
      "analise_trimestral", "detectar_ondas_calor", "detectar_ondas_frio",
      "grafico_serie_temporal_completa", "grafico_distribuicoes",
      "grafico_analise_horaria", "grafico_analise_mensal_sazonal",
      "grafico_analise_avancada">>

\* The calls of AnalisadorTemperaturaDetalhado.executar_analise_completa.
MetodosDetalhado ==
    <<"estatisticas_descritivas", "analise_horaria", "analise_periodo_dia",
      "analise_dia_semana", "analise_mensal", "analise_trimestral",
      "detectar_ondas_calor", "detectar_ondas_frio",
      "grafico_serie_temporal_completa", "grafico_distribuicoes",
      "grafico_analise_horaria", "grafico_analise_mensal_sazonal",
      "grafico_analise_avancada", "gerar_relatorio_completo">>

\* The calls of AnalisadorClimatico.executar_analise_completa.
MetodosClimatico ==
    <<"estatisticas_descritivas", "analise_temporal", "grafico_temperatura",
      "grafico_precipitacao", "grafico_umidade_pressao", "grafico_vento_radiacao",
      "matriz_correlacao", "relatorio_completo">>

\* The calls of main of analise_maio_9h10h after the load.
FuncoesMaio ==
    <<"analyze_temperature_changes", "plot_temperature_evolution",
      "compare_temperature_by_day", "generate_temperature_report">>

Roteiro(prog) ==
    CASE prog = "AnalisadorClimatico" -> MetodosClimatico
      [] prog = "AnalisadorTemperaturaDetalhado" -> MetodosDetalhado
      [] OTHER -> FuncoesMaio

\* The calls that change neither the table nor self.estatisticas and draw
\* no radiation profile: they read the table and print, plot or write files.
SemEfeito(prog) ==
    {Roteiro(prog)[i] : i \in DOMAIN Roteiro(prog)}
        \ (CASE prog = "AnalisadorClimatico" ->
                  {"grafico_temperatura", "grafico_vento_radiacao"}
              [] prog = "AnalisadorTemperaturaDetalhado" ->
                  {"estatisticas_descritivas", "gerar_relatorio_completo"}
              [] OTHER -> {"compare_temperature_by_day"})

\* The columns of the table after the constructor or the loader (of the
\* measurement columns only temperature and radiation are kept, of the
\* calendar columns none): the export may lack a measurement column.
ColunasDe(prog, comTemp, comRad) ==
    CASE prog = "AnalisadorClimatico" ->
             <<"Data", "Hora UTC">>
                 \o (IF comTemp THEN <<"Temperatura">> ELSE <<>>)
                 \o (IF comRad THEN <<"Radiacao">> ELSE <<>>)
      [] prog = "AnalisadorTemperaturaDetalhado" ->
             <<"Data", "Hora UTC", "Temperatura", "Hora">>
      [] OTHER ->
             <<"datetime">> \o (IF comTemp THEN <<"temperatura">> ELSE <<>>)

\* The value of column c in row k, whose hour code is h and temperature t.
ValorDe(c, k, h, t) ==
    CASE c = "Data" -> k
      [] c = "Hora UTC" -> h
      [] c = "Hora" -> HoraInt(h)
      [] c = "datetime" -> Instante(5, k, 9, 0)
      [] c = "Radiacao" -> Float(1)
      [] OTHER -> Float(t)

TemCol(t, c) == \E i \in DOMAIN t.colunas : t.colunas[i] = c

\* The hour codes of the table's rows.
HorasExec == {HoraTexto("0", "9"), HoraTexto("1", "0")}

InitExec ==
    /\ \E prog \in Programas, n \in 1..MaxRegistros, comTemp \in BOOLEAN, comRad \in BOOLEAN :
           \E hs \in [1..n -> HorasExec], ts \in [1..n -> Temps] :
               LET cols == ColunasDe(prog, comTemp, comRad)
                   t == [colunas |-> cols,
                         linhas |-> [k \in 1..n |->
                                        [c \in {cols[i] : i \in DOMAIN cols} |->
                                            ValorDe(c, k, hs[k], ts[k])]]]
               IN /\ programa = prog
                  /\ self_df = t
                  /\ carregada = t
    /\ estatisticas = <<>>
    /\ fila = <<>>
    /\ chamadas = <<>>
    /\ df = <<>>
    /\ tab = <<>>
    /\ SemCarga
    /\ SemFun
    /\ InitCommon

varsResto == <<df, pc, limiar_percentil, dias_consecutivos, limiar, temp_diaria,
               pos, inicio, duracao, ondas, tab, daily, miss, escrito, varsCarga,
               varsFun>>

\* Calls made outside the complete run.
Avulsas == Cardinality({i \in DOMAIN chamadas : ~chamadas[i].na_execucao})

\* m is the next call of the run in progress, or a call a caller makes on
\* its own while no run is in progress.
Chamavel(m) ==
    IF fila # <<>> THEN m = Head(fila)
    ELSE /\ Avulsas < MaxAvulsas
         /\ \E i \in DOMAIN Roteiro(programa) : Roteiro(programa)[i] = m

\* The call m returns: secao is what it wrote under the report's statistics
\* heading, perfil the hourly radiation profile it drew.
Registra(m, secao, perfil) ==
    /\ chamadas' = Append(chamadas, [metodo |-> m,
                                      na_execucao |-> fila # <<>>,
                                      secao |-> secao,
                                      perfil |-> perfil])
    /\ fila' = IF fila # <<>> THEN Tail(fila) ELSE fila

\* executar_analise_completa: the calls it will make, in its order.
executar_analise_completa ==
    /\ programa \in Classes
    /\ fila = <<>>
    /\ \A i \in DOMAIN chamadas : ~chamadas[i].na_execucao
    /\ fila' = Roteiro(programa)
    /\ UNCHANGED <<programa, self_df, carregada, estatisticas, chamadas, varsResto>>

\* main of analise_maio_9h10h from the first analysis on (the table is not
\* empty).
main ==
    /\ programa = "analise_maio_9h10h"
    /\ fila = <<>>
    /\ \A i \in DOMAIN chamadas : ~chamadas[i].na_execucao
    /\ fila' = Roteiro(programa)
    /\ UNCHANGED <<programa, self_df, carregada, estatisticas, chamadas, varsResto>>

\* stats_dict of estatisticas_descritivas, three of its entries and the
\* count of missing values.
stats_dict(t) ==
    LET temp_data == Col(t.linhas, "Temperatura") IN
    << <<"Media Aritmetica", SeriesMean(temp_data)>>,
       <<"Minimo", SeriesMin(temp_data)>>,
       <<"Maximo", SeriesMax(temp_data)>>,
       <<"Valores Ausentes", Len(temp_data) - Len(dropna(temp_data))>> >>

\* AnalisadorTemperaturaDetalhado.estatisticas_descritivas fills
\* self.estatisticas.
estatisticas_descritivas ==
    /\ programa = "AnalisadorTemperaturaDetalhado"
    /\ Chamavel("estatisticas_descritivas")
    /\ estatisticas' = stats_dict(self_df)
    /\ Registra("estatisticas_descritivas", <<>>, <<>>)
    /\ UNCHANGED <<programa, self_df, carregada, varsResto>>

\* AnalisadorTemperaturaDetalhado.gerar_relatorio_completo: section 1 of
\* the report is one line per entry of self.estatisticas.
gerar_relatorio_completo ==
    /\ programa = "AnalisadorTemperaturaDetalhado"
    /\ Chamavel("gerar_relatorio_completo")
    /\ Registra("gerar_relatorio_completo", estatisticas, <<>>)
    /\ UNCHANGED <<programa, self_df, carregada, estatisticas, varsResto>>

\* self.df['Hora_Num'] = self.df['Hora UTC'].str[:2].astype(int)
ComHoraNum(t) ==
    [colunas |-> IF TemCol(t, "Hora_Num") THEN t.colunas
                 ELSE Append(t.colunas, "Hora_Num"),
     linhas |-> [k \in DOMAIN t.linhas |->
                    [c \in DOMAIN t.linhas[k] \cup {"Hora_Num"} |->
                        IF c = "Hora_Num" THEN HoraInt(t.linhas[k]["Hora UTC"])
                        ELSE t.linhas[k][c]]]]

\* AnalisadorClimatico.grafico_temperatura: returns at once without the
\* temperature column; otherwise its fourth panel adds Hora_Num to self.df.
grafico_temperatura ==
    /\ programa = "AnalisadorClimatico"
    /\ Chamavel("grafico_temperatura")
    /\ self_df' = IF TemCol(self_df, "Temperatura") THEN ComHoraNum(self_df)
                  ELSE self_df
    /\ Registra("grafico_temperatura", <<>>, <<>>)
    /\ UNCHANGED <<programa, carregada, estatisticas, varsResto>>

\* self.df.groupby('Hora_Num')[radiacao_col].mean()
radiacao_horaria(t) ==
    GroupbyMean([k \in DOMAIN t.linhas |->
                    [Data |-> t.linhas[k]["Hora_Num"],
                     Temperatura |-> t.linhas[k]["Radiacao"]]])

\* AnalisadorClimatico.grafico_vento_radiacao: the fourth panel, the hourly
\* radiation profile, is drawn when the table has Radiacao and Hora_Num.
grafico_vento_radiacao ==
    /\ programa = "AnalisadorClimatico"
    /\ Chamavel("grafico_vento_radiacao")
    /\ Registra("grafico_vento_radiacao", <<>>,
                IF TemCol(self_df, "Radiacao") /\ TemCol(self_df, "Hora_Num")
                THEN radiacao_horaria(self_df)
                ELSE <<>>)
    /\ UNCHANGED <<programa, self_df, carregada, estatisticas, varsResto>>

\* df['day'] = pd.to_datetime(df['datetime']).dt.day
ComDay(t) ==
    [colunas |-> IF TemCol(t, "day") THEN t.colunas ELSE Append(t.colunas, "day"),
     linhas |-> [k \in DOMAIN t.linhas |->
                    [c \in DOMAIN t.linhas[k] \cup {"day"} |->
                        IF c = "day" THEN dt_day(t.linhas[k]["datetime"])
                        ELSE t.linhas[k][c]]]]

\* compare_temperature_by_day(df, outdir): returns at once without a
\* temperature column; otherwise adds the column day to the caller's table.
compare_temperature_by_day ==
    /\ programa = "analise_maio_9h10h"
    /\ Chamavel("compare_temperature_by_day")
    /\ self_df' = IF /\ self_df.linhas # <<>>
                     /\ TemCol(self_df, "datetime")
                     /\ TemCol(self_df, "temperatura")
                  THEN ComDay(self_df)
                  ELSE self_df
    /\ Registra("compare_temperature_by_day", <<>>, <<>>)
    /\ UNCHANGED <<programa, carregada, estatisticas, varsResto>>

\* Every other call of the three programs.
OutraChamada(m) ==
    /\ programa # ""
    /\ m \in SemEfeito(programa)
    /\ Chamavel(m)
    /\ Registra(m, <<>>, <<>>)
    /\ UNCHANGED <<programa, self_df, carregada, estatisticas, varsResto>>

NextExec ==
    \/ executar_analise_completa
    \/ main
    \/ estatisticas_descritivas
    \/ gerar_relatorio_completo
    \/ grafico_temperatura
    \/ grafico_vento_radiacao
    \/ compare_temperature_by_day
    \/ \E m \in UNION {SemEfeito(prog) : prog \in Programas} : OutraChamada(m)

SpecExec == InitExec /\ [][NextExec]_vars

(***************************************************************************)
(* Properties of the complete runs (checked under SpecExec).               *)
(***************************************************************************)
\* C25: no analysis operation changes the loaded table: after any calls
\* the table has the columns, rows and values the load left.
C25_TabelaIntacta ==
    programa # "" =>
        /\ self_df.colunas = carregada.colunas
        /\ self_df.linhas = carregada.linhas

\* The step is the call m, made by the complete run (naExecucao) or by a
\* caller on its own.
Passo(m, naExecucao) ==
    /\ Len(chamadas') = Len(chamadas) + 1
    /\ chamadas'[Len(chamadas')].metodo = m
    /\ chamadas'[Len(chamadas')].na_execucao = naExecucao

\* m has been called before; by the run in progress.
JaChamou(m) == \E i \in DOMAIN chamadas : chamadas[i].metodo = m
JaNaExecucao(m) ==
    \E i \in DOMAIN chamadas : chamadas[i].metodo = m /\ chamadas[i].na_execucao

\* C30: in every run of executar_analise_completa an operation that reads
\* derived state runs after the operation that creates it: the run calls
\* gerar_relatorio_completo after its estatisticas_descritivas has filled
\* self.estatisticas, and grafico_vento_radiacao after its
\* grafico_temperatura, the radiation profile being drawn only on a table
\* that has Hora_Num. Called with the creating operation not yet called,
\* gerar_relatorio_completo writes an empty statistics section and
\* grafico_vento_radiacao skips the radiation profile.
C30_OrdemDaExecucao ==
    [][/\ Passo("gerar_relatorio_completo", TRUE) =>
              /\ JaNaExecucao("estatisticas_descritivas")
              /\ estatisticas # <<>>
              /\ chamadas'[Len(chamadas')].secao = estatisticas
       /\ Passo("grafico_vento_radiacao", TRUE) =>
              JaNaExecucao("grafico_temperatura")
       /\ \A b \in BOOLEAN :
              (Passo("grafico_vento_radiacao", b)
                  /\ chamadas'[Len(chamadas')].perfil # <<>>) =>
                     /\ JaChamou("grafico_temperatura")
                     /\ TemCol(self_df, "Hora_Num")
       /\ \A b \in BOOLEAN :
              (Passo("gerar_relatorio_completo", b)
                  /\ ~JaChamou("estatisticas_descritivas")) =>
                     chamadas'[Len(chamadas')].secao = <<>>
       /\ \A b \in BOOLEAN :
              (Passo("grafico_vento_radiacao", b)
                  /\ ~JaChamou("grafico_temperatura")) =>
                     chamadas'[Len(chamadas')].perfil = <<>>
      ]_vars

\* A caller wrote the report before the run (empty statistics section), then
\* the run wrote it with the statistics.
C30_Witness ==
    /\ programa = "AnalisadorTemperaturaDetalhado"
    /\ fila = <<>>
    /\ \E i \in DOMAIN chamadas :
           /\ chamadas[i].metodo = "gerar_relatorio_completo"
           /\ ~chamadas[i].na_execucao
           /\ chamadas[i].secao = <<>>
    /\ \E i \in DOMAIN chamadas :
           /\ chamadas[i].metodo = "gerar_relatorio_completo"
           /\ chamadas[i].na_execucao
           /\ chamadas[i].secao # <<>>

\* The same for the radiation profile of AnalisadorClimatico.
C30_PerfilAlcancado ==
    /\ programa = "AnalisadorClimatico"
    /\ \E i \in DOMAIN chamadas :
           /\ chamadas[i].metodo = "grafico_vento_radiacao"
           /\ ~chamadas[i].na_execucao
           /\ chamadas[i].perfil = <<>>
    /\ \E i \in DOMAIN chamadas :
           /\ chamadas[i].metodo = "grafico_vento_radiacao"
           /\ chamadas[i].na_execucao
           /\ chamadas[i].perfil # <<>>

====
